---- MODULE Spec2Model ----
(***************************************************************************)
(* The virtqueue engine of tools/kvm/virtio/core.c: the used-ring producer *)
(* with its two write barriers, the event-index notification test, and the *)
(* descriptor chain walker.  Guest memory is held in the guest's byte      *)
(* order; every host access goes through the endianness accessors.         *)
(***************************************************************************)
EXTENDS Integers, Sequences, FiniteSets, TLC

\* ------------------------------------------------------------------ bounds
\* Calls of virt_queue__set_used_elem in one behaviour.
MaxCalls == 2

\* ---------------------------------------------------------------- constants
\* Width of u16 (idx, old_idx, new_idx, event_idx, max, out, in).
U16 == 65536

\* Queue sizes (vring.num) the ring specifications start from.
NumSet == {1, 2}
\* Used index values at the start: fresh, and just below the 16-bit wrap.
IdxStart == {0, 65534}
\* Byte counts a backend reports for a completed chain.
LenVals == {0, 100}

VARIABLES
  vring_num,            \* queue->vring.num
  swap,                 \* the queue's byte order differs from the host's
  used_idx,             \* queue->vring.used->idx, as it lies in guest memory
  used_ring,            \* queue->vring.used->ring[], as it lies in guest memory
  used_event,           \* vring_used_event(&vq->vring), guest-written
  irq,                  \* notification delivered to the guest: updates it covers
  sb,                   \* the host CPU's stores not yet visible to the guest
  last_used_signalled,  \* vq->last_used_signalled
  pc,                   \* position of the host thread
  head, len,            \* arguments of the running set_used_elem call
  idx,                  \* its local idx
  used_elem,            \* its local used_elem (the slot pointed to)
  idx_before,           \* used index read on entry of the last call
  old_idx, new_idx, event_idx,  \* locals of the last should_signal call
  sig_ret,              \* its return value
  advanced,             \* the used index advanced since the last should_signal
  sig_adv,              \* the last should_signal call was the first after an advance
  signals_since_adv,    \* true answers since the last advance
  sig_tick,             \* flips at every should_signal call
  adv_event,            \* threshold published when the index last advanced
  ncalls,               \* set_used_elem calls made
  idx0,                 \* used index at the start
  posted,               \* per slot, the (head, len) last passed for it
  g_seen,               \* guest: used index it last read
  g_last,               \* guest: its last_used_idx (entries consumed)
  g_got,                \* guest: the record it last consumed
  g_exp,                \* the (head, len) passed for that entry
  g_event,              \* guest: the event threshold it last published
  desc,                 \* vq->vring.desc[], as it lies in guest memory
  itab,                 \* guest memory at ItabAddr, as descriptor records
  avail_head,           \* the head index the guest made available
  wpc,                  \* position of the chain walker
  w_head,               \* get_head_iov: argument head
  w_idx,                \* its local idx
  w_max,                \* its local max
  w_desc,               \* its local desc (the table walked)
  iov,                  \* its result iov[], the entries written so far
  out, in,              \* its results *out and *in
  w_ret,                \* its return value
  visited,              \* the descriptors its loop has read, in order
  avail_ring,           \* vq->vring.avail->ring[], as it lies in guest memory
  avail_idx,            \* vq->vring.avail->idx, as it lies in guest memory
  last_avail_idx,       \* vq->last_avail_idx
  published,            \* the heads the guest published, in order
  returned,             \* the heads the walkers returned, in call order
  io_pc,                \* position of get_inout_iov
  io_head, io_idx,      \* its locals head and idx
  in_iov, out_iov,      \* its results in_iov[] and out_iov[]
  io_in, io_out,        \* its results *in and *out
  io_ret,               \* its return value
  vdev_virtio,          \* per device, vdev->virtio
  vdev_ops,             \* per device, vdev->ops
  ops_tab,              \* per operation table, its four callbacks
  init_log,             \* the transport init callbacks invoked, in order
  init_ret,             \* return value of the last virtio_init call
  init_arg,             \* arguments of the last virtio_init call
  kind_of,              \* per device, the kind of its last successful virtio_init
  f_offset, f_msix,     \* arguments of the last get_dev_specific_field call
  f_ret,                \* its return value
  config_off,           \* the caller's u32 behind config_off
  f_n                   \* get_dev_specific_field calls made

vars == <<vring_num, swap, used_idx, used_ring, used_event, irq, sb,
          last_used_signalled, pc, head, len, idx, used_elem, idx_before,
          old_idx, new_idx, event_idx, sig_ret, advanced, sig_adv,
          signals_since_adv, sig_tick, adv_event, ncalls, idx0,
          posted, g_seen, g_last, g_got, g_exp, g_event,
          desc, itab, avail_head, wpc, w_head, w_idx, w_max, w_desc, iov,
          out, in, w_ret, visited,
          avail_ring, avail_idx, last_avail_idx, published, returned,
          io_pc, io_head, io_idx, in_iov, out_iov, io_in, io_out, io_ret,
          vdev_virtio, vdev_ops, ops_tab, init_log, init_ret, init_arg,
          kind_of, f_offset, f_msix, f_ret, config_off, f_n>>

\* ------------------------------------------------- endianness accessors
bswap16(v) == (v % 256) * 256 + (v \div 256)

bswap32(v) ==
  (v % 256) * 16777216 + ((v \div 256) % 256) * 65536
    + ((v \div 65536) % 256) * 256 + (v \div 16777216)

virtio_guest_to_host_u16(v) == IF swap THEN bswap16(v) ELSE v
virtio_host_to_guest_u16(v) == IF swap THEN bswap16(v) ELSE v
virtio_guest_to_host_u32(v) == IF swap THEN bswap32(v) ELSE v
virtio_host_to_guest_u32(v) == IF swap THEN bswap32(v) ELSE v

\* ------------------------------------------------------- store ordering
\* sb is a sequence of groups of stores.  Stores of one group may become
\* visible in any order; a group becomes visible only after the groups
\* before it.  wmb() closes the current group.
NoBarrier(b) == b

wmb(b) == IF b = <<>> \/ b[Len(b)] = {} THEN b ELSE Append(b, {})

Store(b, l, v) ==
  IF b = <<>> THEN << {[loc |-> l, val |-> v]} >>
  ELSE [b EXCEPT ![Len(b)] = @ \cup {[loc |-> l, val |-> v]}]

\* The barrier between the record and the index (line 38).
wmb_record(b) == wmb(b)

\* The barrier between the index and the notification (line 47).
wmb_index(b) == wmb(b)

MemVal(l) ==
  CASE l[1] = "idx" -> used_idx
    [] l[1] = "id"  -> used_ring[l[2]].id
    [] l[1] = "len" -> used_ring[l[2]].len
    [] l[1] = "irq" -> irq

\* What the host thread itself reads: its own latest store, else memory.
HostRead(l) ==
  LET at == {i \in 1..Len(sb) : \E s \in sb[i] : s.loc = l} IN
  IF at = {} THEN MemVal(l)
  ELSE LET m == CHOOSE i \in at : \A j \in at : j <= i
       IN (CHOOSE s \in sb[m] : s.loc = l).val

\* ------------------------------------------------- virt_queue__set_used_elem
UsedSlot(i) == i % vring_num

IdxStay(i) == i
IdxIncNoWrap(i) == i + 1
IdxInc(i) == (i + 1) % U16

\* The caller's obligation: a completion is posted only for a chain the
\* guest made available, so at most num entries are unconsumed.
RoomInUsedRing ==
  (virtio_guest_to_host_u16(HostRead(<<"idx">>)) - g_last) % U16 < vring_num

hostLocals == <<head, len, idx, used_elem, idx_before>>
sigLocals == <<old_idx, new_idx, event_idx, sig_ret>>
sigGhosts == <<sig_adv, signals_since_adv, sig_tick, adv_event>>
guestVars == <<g_seen, g_last, g_got, g_exp, g_event>>
memVars == <<used_idx, used_ring, irq>>
fixedVars == <<vring_num, swap, idx0>>
walkVars == <<desc, itab, avail_head, wpc, w_head, w_idx, w_max, w_desc, iov,
              out, in, w_ret, visited>>
availVars == <<avail_ring, avail_idx, last_avail_idx, published>>
inoutVars == <<io_pc, io_head, io_idx, in_iov, out_iov, io_in, io_out, io_ret>>
devVars == <<vdev_virtio, vdev_ops, ops_tab, init_log, init_ret, init_arg,
             kind_of>>
fieldVars == <<f_offset, f_msix, f_ret, config_off, f_n>>

\* Lines 24-29: entry, read of the index, address of the slot.
SetUsedElem_Enter(h, l) ==
  /\ pc = "idle"
  /\ ncalls < MaxCalls
  /\ RoomInUsedRing
  /\ LET i == virtio_guest_to_host_u16(HostRead(<<"idx">>)) IN
       /\ idx' = i
       /\ idx_before' = i
       /\ used_elem' = UsedSlot(i)
       /\ posted' = [posted EXCEPT ![UsedSlot(i)] = [id |-> h, len |-> l]]
  /\ head' = h
  /\ len' = l
  /\ ncalls' = ncalls + 1
  /\ pc' = "store_id"
  /\ UNCHANGED <<walkVars, fixedVars, availVars, returned, inoutVars, devVars, fieldVars,
                 memVars, used_event, sb, last_used_signalled,
                 sigLocals, sigGhosts, advanced, guestVars>>

\* Line 30.
SetUsedElem_StoreId ==
  /\ pc = "store_id"
  /\ sb' = Store(sb, <<"id", used_elem>>, virtio_host_to_guest_u32(head))
  /\ pc' = "store_len"
  /\ UNCHANGED <<walkVars, fixedVars, availVars, returned, inoutVars, devVars, fieldVars,
                 memVars, used_event, last_used_signalled,
                 hostLocals, sigLocals, sigGhosts, advanced, ncalls, posted,
                 guestVars>>

\* Line 31.
SetUsedElem_StoreLen ==
  /\ pc = "store_len"
  /\ sb' = Store(sb, <<"len", used_elem>>, virtio_host_to_guest_u32(len))
  /\ pc' = "wmb_record"
  /\ UNCHANGED <<walkVars, fixedVars, availVars, returned, inoutVars, devVars, fieldVars,
                 memVars, used_event, last_used_signalled,
                 hostLocals, sigLocals, sigGhosts, advanced, ncalls, posted,
                 guestVars>>

\* Line 38.
SetUsedElem_WmbRecord ==
  /\ pc = "wmb_record"
  /\ sb' = wmb_record(sb)
  /\ pc' = "store_idx"
  /\ UNCHANGED <<walkVars, fixedVars, availVars, returned, inoutVars, devVars, fieldVars,
                 memVars, used_event, last_used_signalled,
                 hostLocals, sigLocals, sigGhosts, advanced, ncalls, posted,
                 guestVars>>

\* Lines 39-40.
SetUsedElem_StoreIdx ==
  /\ pc = "store_idx"
  /\ idx' = IdxInc(idx)
  /\ sb' = Store(sb, <<"idx">>, virtio_host_to_guest_u16(IdxInc(idx)))
  /\ adv_event' = g_event
  /\ pc' = "wmb_index"
  /\ UNCHANGED <<walkVars, fixedVars, availVars, returned, inoutVars, devVars, fieldVars,
                 memVars, used_event, last_used_signalled,
                 head, len, used_elem, idx_before, sigLocals, sig_adv,
                 signals_since_adv, sig_tick, advanced,
                 ncalls, posted, guestVars>>

\* Lines 47-49: the second barrier, then return of used_elem.
SetUsedElem_WmbIndex ==
  /\ pc = "wmb_index"
  /\ sb' = wmb_index(sb)
  /\ advanced' = TRUE
  /\ signals_since_adv' = 0
  /\ pc' = "returned"
  /\ UNCHANGED <<walkVars, fixedVars, availVars, returned, inoutVars, devVars, fieldVars,
                 memVars, used_event, last_used_signalled,
                 hostLocals, sigLocals, sig_adv, sig_tick, adv_event, ncalls,
                 posted,
                 guestVars>>

\* Lines 29-31: the used ring once the record at slot s is written.
WriteUsedAll(ring, s, h, l) ==
  [t \in DOMAIN ring |-> [id  |-> virtio_host_to_guest_u32(h),
                          len |-> virtio_host_to_guest_u32(l)]]
WriteUsed(ring, s, h, l) ==
  [ring EXCEPT ![s] = [id  |-> virtio_host_to_guest_u32(h),
                       len |-> virtio_host_to_guest_u32(l)]]

\* The whole of virt_queue__set_used_elem (lines 24-50) as the host thread
\* itself sees it; used where no guest read falls between its stores.
virt_queue__set_used_elem(h, l) ==
  /\ pc = "idle"
  /\ sb = <<>>
  /\ LET i == virtio_guest_to_host_u16(used_idx) IN
       /\ idx_before' = i
       /\ used_elem' = UsedSlot(i)
       /\ used_ring' = WriteUsed(used_ring, UsedSlot(i), h, l)
       /\ idx' = IdxInc(i)
       /\ used_idx' = virtio_host_to_guest_u16(IdxInc(i))
       /\ posted' = [posted EXCEPT ![UsedSlot(i)] = [id |-> h, len |-> l]]
  /\ head' = h
  /\ len' = l
  /\ ncalls' = ncalls + 1
  /\ advanced' = TRUE
  /\ signals_since_adv' = 0
  /\ adv_event' = g_event
  /\ pc' = "returned"
  /\ UNCHANGED <<walkVars, fixedVars, availVars, returned, inoutVars, devVars, fieldVars,
                 irq, used_event, sb, last_used_signalled,
                 sigLocals, sig_adv, sig_tick, guestVars>>

\* ------------------------------------------------ virtio_queue__should_signal
\* vring_need_event() of linux/virtio_ring.h.
vring_need_event(e, n, o) == ((n - e - 1) % U16) < ((n - o) % U16)

\* Line 175: the test, with the arguments in the order the call passes them.
due_swapped(o, n, e) == vring_need_event(n, e, o)
should_signal_due(o, n, e) == vring_need_event(e, n, o)

\* Lines 175-178: the cursor after the call.
cursor_kept(due, o, n) == o
signalled_cursor(due, o, n) == IF due THEN n ELSE o

\* Lines 167-181.
virtio_queue__should_signal ==
  /\ pc \in {"returned", "idle"}
  /\ LET o == last_used_signalled
         n == virtio_guest_to_host_u16(HostRead(<<"idx">>))
         e == virtio_guest_to_host_u16(used_event)
         due == should_signal_due(o, n, e)
     IN /\ old_idx' = o
        /\ new_idx' = n
        /\ event_idx' = e
        /\ sig_ret' = due
        /\ last_used_signalled' = signalled_cursor(due, o, n)
        /\ signals_since_adv' = signals_since_adv + (IF due THEN 1 ELSE 0)
        /\ pc' = IF due THEN "signal" ELSE "idle"
  /\ sig_adv' = advanced
  /\ sig_tick' = ~sig_tick
  /\ advanced' = FALSE
  /\ UNCHANGED adv_event
  /\ UNCHANGED <<walkVars, fixedVars, availVars, returned, inoutVars, devVars, fieldVars,
                 memVars, used_event, sb, hostLocals, ncalls,
                 posted, guestVars>>

\* The caller's vdev->ops->signal_vq() after a true answer: the
\* notification leaves the host CPU behind the stores before it.
SignalVq ==
  /\ pc = "signal"
  /\ sb' = Store(sb, <<"irq">>, ncalls)
  /\ pc' = "idle"
  /\ UNCHANGED <<walkVars, fixedVars, availVars, returned, inoutVars, devVars, fieldVars,
                 memVars, used_event, last_used_signalled,
                 hostLocals, sigLocals, sigGhosts, advanced,
                 ncalls, posted, guestVars>>

\* The buffer once store s of its oldest group is visible.
Drained(b, s) ==
  IF b[1] # {s} THEN [b EXCEPT ![1] = @ \ {s}]
  ELSE IF Tail(b) = << {} >> THEN <<>> ELSE Tail(b)

\* A pending store of the oldest group becomes visible to the guest.
Commit ==
  /\ sb # <<>>
  /\ \E s \in Head(sb) :
       /\ used_idx' = IF s.loc[1] = "idx" THEN s.val ELSE used_idx
       /\ irq' = IF s.loc[1] = "irq" THEN s.val ELSE irq
       /\ used_ring' =
            CASE s.loc[1] = "id"  -> [used_ring EXCEPT ![s.loc[2]].id = s.val]
              [] s.loc[1] = "len" -> [used_ring EXCEPT ![s.loc[2]].len = s.val]
              [] OTHER -> used_ring
       /\ sb' = Drained(sb, s)
  /\ UNCHANGED <<walkVars, fixedVars, availVars, returned, inoutVars, devVars, fieldVars,
                 used_event, last_used_signalled, pc, hostLocals,
                 sigLocals, sigGhosts, advanced, ncalls, posted, guestVars>>

\* ------------------------------------------------------------- the guest
\* The guest reads the used index.
GuestReadIdx ==
  /\ g_seen # virtio_guest_to_host_u16(used_idx)
  /\ g_seen' = virtio_guest_to_host_u16(used_idx)
  /\ UNCHANGED <<walkVars, fixedVars, availVars, returned, inoutVars, devVars, fieldVars,
                 memVars, used_event, sb, last_used_signalled, pc,
                 hostLocals, sigLocals, sigGhosts, advanced,
                 ncalls, posted, g_last, g_got, g_exp, g_event>>

\* Having seen the index past its cursor, the guest reads the record there.
GuestReadElem ==
  /\ g_last # g_seen
  /\ g_got' = [id  |-> virtio_guest_to_host_u32(used_ring[g_last % vring_num].id),
               len |-> virtio_guest_to_host_u32(used_ring[g_last % vring_num].len)]
  /\ g_exp' = posted[g_last % vring_num]
  /\ g_last' = (g_last + 1) % U16
  /\ UNCHANGED <<walkVars, fixedVars, availVars, returned, inoutVars, devVars, fieldVars,
                 memVars, used_event, sb, last_used_signalled, pc,
                 hostLocals, sigLocals, sigGhosts, advanced,
                 ncalls, posted, g_seen, g_event>>

\* The guest publishes the event threshold e.
GuestWriteEvent(e) ==
  /\ used_event # virtio_host_to_guest_u16(e)
  /\ used_event' = virtio_host_to_guest_u16(e)
  /\ g_event' = e
  /\ UNCHANGED <<walkVars, fixedVars, availVars, returned, inoutVars, devVars, fieldVars,
                 memVars, sb, last_used_signalled, pc, hostLocals,
                 sigLocals, sigGhosts, advanced, ncalls, posted,
                 g_seen, g_last, g_got, g_exp>>

\* ------------------------------------------- used ring against the guest
NoRecord == [id |-> 0, len |-> 0]
NoTable == [host |-> <<0, 0>>]

HeadVals == {0, vring_num - 1}

RingLocalsInit ==
  /\ swap \in BOOLEAN
  /\ irq = 0
  /\ sb = <<>>
  /\ pc = "idle"
  /\ head = 0 /\ len = 0 /\ idx = 0 /\ used_elem = 0 /\ idx_before = 0
  /\ old_idx = 0 /\ new_idx = 0 /\ event_idx = 0 /\ sig_ret = FALSE
  /\ sig_adv = FALSE /\ signals_since_adv = 0 /\ advanced = FALSE
  /\ sig_tick = FALSE /\ adv_event = 0
  /\ ncalls = 0
  /\ g_got = NoRecord /\ g_exp = NoRecord

\* No chain is being walked.
WalkerIdle ==
  /\ desc = <<>> /\ itab = <<>> /\ avail_head = 0
  /\ wpc = "none"
  /\ w_head = 0 /\ w_idx = 0 /\ w_max = 0 /\ w_desc = NoTable
  /\ iov = <<>> /\ out = 0 /\ in = 0 /\ w_ret = 0 /\ visited = <<>>

\* The available ring is not in use.
AvailIdle ==
  /\ avail_ring = <<>> /\ avail_idx = 0 /\ last_avail_idx = 0
  /\ published = <<>> /\ returned = <<>>

\* get_inout_iov is not running.
InoutIdle ==
  /\ io_pc = "none" /\ io_head = 0 /\ io_idx = 0
  /\ in_iov = <<>> /\ out_iov = <<>> /\ io_in = 0 /\ io_out = 0 /\ io_ret = 0

\* No device is being set up, no config access decoded.
DevIdle ==
  /\ vdev_virtio = <<>> /\ vdev_ops = <<>> /\ ops_tab = <<>>
  /\ init_log = <<>> /\ init_ret = 0 /\ init_arg = <<>> /\ kind_of = <<>>

FieldIdle ==
  /\ f_offset = 0 /\ f_msix = FALSE /\ f_ret = 0 /\ config_off = 0 /\ f_n = 0

InitCommon ==
  RingLocalsInit /\ WalkerIdle /\ AvailIdle /\ InoutIdle /\ DevIdle /\ FieldIdle

\* A queue whose guest has consumed every used entry and asks to be told of
\* the next one; the used index is anywhere in its 16-bit range.
Init ==
  /\ InitCommon
  /\ vring_num \in NumSet
  /\ idx0 \in IdxStart
  /\ used_idx = virtio_host_to_guest_u16(idx0)
  /\ used_ring = [s \in 0..(vring_num - 1) |-> NoRecord]
  /\ posted = [s \in 0..(vring_num - 1) |-> NoRecord]
  /\ used_event = virtio_host_to_guest_u16(idx0)
  /\ g_event = idx0
  /\ last_used_signalled = idx0
  /\ g_seen = idx0
  /\ g_last = idx0

Next ==
  \/ \E h \in HeadVals, l \in LenVals : SetUsedElem_Enter(h, l)
  \/ SetUsedElem_StoreId
  \/ SetUsedElem_StoreLen
  \/ SetUsedElem_WmbRecord
  \/ SetUsedElem_StoreIdx
  \/ SetUsedElem_WmbIndex
  \/ (pc = "returned" /\ virtio_queue__should_signal)
  \/ SignalVq
  \/ Commit
  \/ GuestReadIdx
  \/ GuestReadElem
  \/ GuestWriteEvent(g_last)

Spec == Init /\ [][Next]_vars

\* --------------------------------------- the notification test on its own
\* Used index, last-signalled cursor and event threshold are three 16-bit
\* values that run free of each other.  The guest publishes any threshold.
\* From a cursor c, completions whose threshold the guest keeps at the
\* current used index are never due ((new - event - 1) mod 2^16 = 65535),
\* so the used index reaches every value c+1 .. c+65535 with the cursor
\* still c.  The starts below are such states: cursor 0 with the index at
\* 4 or 65535, cursor 5 with the index 65535 completions later at 4.
SigIdxStart == {0, 4, 65535}
SigCursorStart == {0, 5}
EventVals == {0, 3, 4, 1000, 65535}

InitSignal ==
  /\ InitCommon
  /\ vring_num = 2
  /\ idx0 \in SigIdxStart
  /\ used_idx = virtio_host_to_guest_u16(idx0)
  /\ used_ring = [s \in 0..(vring_num - 1) |-> NoRecord]
  /\ posted = [s \in 0..(vring_num - 1) |-> NoRecord]
  /\ used_event = virtio_host_to_guest_u16(0)
  /\ g_event = 0
  /\ last_used_signalled \in SigCursorStart
  /\ g_seen = idx0
  /\ g_last = idx0

NextSignal ==
  \/ (ncalls < MaxCalls /\ \E h \in HeadVals : virt_queue__set_used_elem(h, 100))
  \/ virtio_queue__should_signal
  \/ SignalVq
  \/ Commit
  \/ \E e \in EventVals : GuestWriteEvent(e)

SpecSignal == InitSignal /\ [][NextSignal]_vars


\* ------------------------------------------ the used index over its wrap
\* Calls of virt_queue__set_used_elem from just below the wrap.
WrapCalls == 3
\* Power-of-two queue sizes.
WrapNums == {1, 2, 4, 8}

InitWrap ==
  /\ InitCommon
  /\ vring_num \in WrapNums
  /\ idx0 = 65534
  /\ used_idx = virtio_host_to_guest_u16(idx0)
  /\ used_ring = [s \in 0..(vring_num - 1) |-> NoRecord]
  /\ posted = [s \in 0..(vring_num - 1) |-> NoRecord]
  /\ used_event = virtio_host_to_guest_u16(idx0)
  /\ g_event = idx0
  /\ last_used_signalled = idx0
  /\ g_seen = idx0
  /\ g_last = idx0

NextWrap ==
  \/ (ncalls < WrapCalls
        /\ \E h \in HeadVals, l \in LenVals : virt_queue__set_used_elem(h, l))
  \/ (pc = "returned" /\ virtio_queue__should_signal)
  \/ SignalVq
  \/ Commit

SpecWrap == InitWrap /\ [][NextWrap]_vars

\* ------------------------------------------------------ the chain walker
\* Entries of iov[] the caller provides; the walk is followed this far.
MaxIov == 6
\* Descriptor records of guest memory modelled at ItabAddr.
ItabCap == 3

VRING_DESC_F_NEXT == 1
VRING_DESC_F_WRITE == 2
VRING_DESC_F_INDIRECT == 4
\* sizeof(struct vring_desc)
VringDescSize == 16

\* A 64-bit value is the pair <<high word, low word>>.
bswap64(a) == << bswap32(a[2]), bswap32(a[1]) >>
virtio_guest_to_host_u64(a) == IF swap THEN bswap64(a) ELSE a
virtio_host_to_guest_u64(a) == IF swap THEN bswap64(a) ELSE a

\* The host pointer for a guest physical address.
guest_flat_to_host(a) == [host |-> a]

\* Guest physical addresses: the queue's descriptor table, the indirect
\* table, and the buffers the descriptors of either point to.
DescTableAddr == << 0, 4 >>
ItabAddr == << 0, 96 >>
RingBufAddr(i) == << 0, 32 + i >>
RingBufLen(i) == 8 + i
ItabBufAddr(j) == << 1, 64 + j >>
ItabBufLen(j) == 24 + j

\* The descriptor record as the guest writes it.
MkDesc(a, l, f, n) ==
  [addr  |-> virtio_host_to_guest_u64(a),
   len   |-> virtio_host_to_guest_u32(l),
   flags |-> virtio_host_to_guest_u16(f),
   next  |-> virtio_host_to_guest_u16(n)]

\* Lines 52-56.
virt_desc__test_flag(d, flag) ==
  ((virtio_guest_to_host_u16(d.flags) \div flag) % 2) = 1

\* Lines 63-78: the index of the next descriptor, or max at the chain's end.
next_desc_following(d, i, max) ==
  IF ~virt_desc__test_flag(d, VRING_DESC_F_NEXT) THEN max ELSE (i + 1) % U16
next_desc(d, i, max) ==
  IF ~virt_desc__test_flag(d, VRING_DESC_F_NEXT) THEN max
  ELSE virtio_guest_to_host_u16(d.next)

\* Line 92: max of an indirect chain, a u16.
indirect_max(d) ==
  (virtio_guest_to_host_u32(d.len) \div VringDescSize) % U16

\* Lines 99-101: the segment of a descriptor.
segment(d) ==
  [iov_base |-> guest_flat_to_host(virtio_guest_to_host_u64(d.addr)),
   iov_len  |-> virtio_guest_to_host_u32(d.len)]

\* What lies behind the end of a table is not the table's: a read there
\* yields whatever that memory holds.
OobDescs ==
  { MkDesc(<< 2, 0 >>, 1, 0, 0),
    MkDesc(<< 2, 1 >>, 2, VRING_DESC_F_NEXT + VRING_DESC_F_WRITE, 0) }

InTable(t, i) ==
  \/ t = guest_flat_to_host(DescTableAddr) /\ i < vring_num
  \/ t = guest_flat_to_host(ItabAddr) /\ i < ItabCap

\* The values a read of t[i] may yield.
DescReads(t, i) ==
  IF ~InTable(t, i) THEN OobDescs
  ELSE IF t = guest_flat_to_host(DescTableAddr) THEN {desc[i]}
  ELSE {itab[i]}

ringVars == <<used_idx, used_ring, used_event, irq, sb, last_used_signalled,
              pc, head, len, idx, used_elem, idx_before, old_idx, new_idx,
              event_idx, sig_ret, advanced, sig_adv, signals_since_adv,
              sig_tick, adv_event, ncalls, posted, g_seen, g_last, g_got,
              g_exp, g_event>>

\* Lines 80-95: entry, and the redirection of an INDIRECT head.
GetHeadIov_Enter(h) ==
  /\ wpc = "start"
  /\ w_head' = h
  /\ out' = 0
  /\ in' = 0
  /\ \E d \in DescReads(guest_flat_to_host(DescTableAddr), h) :
       IF virt_desc__test_flag(d, VRING_DESC_F_INDIRECT)
       THEN /\ w_max' = indirect_max(d)
            /\ w_desc' = guest_flat_to_host(virtio_guest_to_host_u64(d.addr))
            /\ w_idx' = 0
       ELSE /\ w_max' = vring_num % U16
            /\ w_desc' = guest_flat_to_host(DescTableAddr)
            /\ w_idx' = h
  /\ wpc' = "loop"
  /\ UNCHANGED <<ringVars, fixedVars, availVars, returned, inoutVars, devVars, fieldVars,
                 desc, itab, avail_head, iov, w_ret,
                 visited>>

\* Line 109: the value returned, of the locals head and idx.
idx_returned(h, i) == i
head_returned(h, i) == h

\* Lines 97-109: one pass of the loop body, next_desc, the loop test, and
\* the return of head when the test ends the loop.
GetHeadIov_Iter ==
  /\ wpc = "loop"
  /\ Len(iov) < MaxIov
  /\ \E d \in DescReads(w_desc, w_idx) :
       /\ iov' = Append(iov, segment(d))
       /\ visited' = Append(visited, [tab |-> w_desc, idx |-> w_idx, d |-> d])
       /\ in' = IF virt_desc__test_flag(d, VRING_DESC_F_WRITE)
                THEN (in + 1) % U16 ELSE in
       /\ out' = IF virt_desc__test_flag(d, VRING_DESC_F_WRITE)
                 THEN out ELSE (out + 1) % U16
       /\ w_idx' = next_desc(d, w_idx, w_max) % U16
       /\ wpc' = IF next_desc(d, w_idx, w_max) % U16 # w_max
                 THEN "loop" ELSE "done"
       /\ w_ret' = IF next_desc(d, w_idx, w_max) % U16 # w_max
                   THEN w_ret ELSE head_returned(w_head, w_idx)
       /\ returned' = IF next_desc(d, w_idx, w_max) % U16 # w_max
                      THEN returned
                      ELSE Append(returned, head_returned(w_head, w_idx))
  /\ UNCHANGED <<ringVars, fixedVars, availVars, inoutVars, devVars, fieldVars,
                 desc, itab, avail_head, w_head, w_max,
                 w_desc>>

\* A read behind the end of the table may also hit unmapped memory.
GetHeadIov_Fault ==
  /\ \/ wpc = "start" /\ ~InTable(guest_flat_to_host(DescTableAddr), avail_head)
     \/ wpc = "loop" /\ ~InTable(w_desc, w_idx)
  /\ wpc' = "fault"
  /\ UNCHANGED <<ringVars, fixedVars, availVars, returned, inoutVars, devVars, fieldVars,
                 desc, itab, avail_head, w_head, w_idx,
                 w_max, w_desc, iov, out, in, w_ret, visited>>

\* ---- the descriptor tables a guest may have written
WalkNums == {2, 4}
IndLens == {0, 16, 32, 40, 48, 1048592}

\* Sequences over S without repetition, of length 1..n.
Chains(S, n) ==
  UNION { { c \in [1..k -> S] : \A i, j \in 1..k : i # j => c[i] # c[j] }
          : k \in 1..n }

Pos(c, i) == CHOOSE p \in 1..Len(c) : c[p] = i

\* The descriptor at place p of chain c: wr[p] sets WRITE, place ind carries
\* INDIRECT, and the last one ends the chain (tail = -1) or chains on to
\* index tail.
ChainDesc(c, wr, tail, ind, p, a, l) ==
  LET last == (p = Len(c))
      more == ~last \/ tail # -1
  IN MkDesc(a, l,
            (IF more THEN VRING_DESC_F_NEXT ELSE 0)
              + (IF wr[p] THEN VRING_DESC_F_WRITE ELSE 0)
              + (IF ind = p THEN VRING_DESC_F_INDIRECT ELSE 0),
            IF last THEN (IF tail = -1 THEN 0 ELSE tail) ELSE c[p + 1])

\* A descriptor table holding chain c; the other descriptors end a chain.
DirectTable(c, wr, tail, ind) ==
  [i \in 0..(vring_num - 1) |->
     IF \E p \in 1..Len(c) : c[p] = i
     THEN ChainDesc(c, wr, tail, ind, Pos(c, i), RingBufAddr(i), RingBufLen(i))
     ELSE MkDesc(RingBufAddr(i), RingBufLen(i), 0, 0)]

IndirectTable(c, wr, tail, ind) ==
  [j \in 0..(ItabCap - 1) |->
     IF \E p \in 1..Len(c) : c[p] = j
     THEN ChainDesc(c, wr, tail, ind, Pos(c, j), ItabBufAddr(j), ItabBufLen(j))
     ELSE MkDesc(ItabBufAddr(j), ItabBufLen(j), 0, 0)]

\* Descriptors of the queue's table around an INDIRECT head h of length l:
\* they chain on to each other, so a walk that strays into them shows.
TableWithIndirectHead(h, l) ==
  [i \in 0..(vring_num - 1) |->
     IF i = h THEN MkDesc(ItabAddr, l, VRING_DESC_F_INDIRECT, 0)
     ELSE MkDesc(RingBufAddr(i), RingBufLen(i), VRING_DESC_F_NEXT,
                 (i + 1) % vring_num)]

\* A chain in the queue's own table, well-formed or not: the last
\* descriptor may chain back into the chain, on to another descriptor, or
\* to an index outside the table; the head may lie outside it too.
InitDirect ==
  \E c \in Chains(0..(vring_num - 1), vring_num) :
    \E wr \in [1..Len(c) -> BOOLEAN] :
      \E tail \in -1..(vring_num + 1) :
        \E ind \in {0, Len(c)} \ {1} :
          /\ desc = DirectTable(c, wr, tail, ind)
          /\ itab = IndirectTable(<<0>>, <<FALSE>>, -1, 0)
          /\ avail_head \in {c[1], vring_num}

\* An INDIRECT head whose table holds a chain from entry 0.
InitIndirect ==
  \E h \in {0, vring_num - 1} :
    \E l \in IndLens :
      \E c \in { x \in Chains(0..(ItabCap - 1), ItabCap) : x[1] = 0 } :
        \E wr \in [1..Len(c) -> BOOLEAN] :
          \E tail \in -1..ItabCap :
            \E ind \in {0, 1} :
              /\ desc = TableWithIndirectHead(h, l)
              /\ itab = IndirectTable(c, wr, tail, ind)
              /\ avail_head = h

InitWalk ==
  /\ RingLocalsInit
  /\ vring_num \in WalkNums
  /\ idx0 = 0
  /\ used_idx = 0
  /\ used_ring = [s \in 0..(vring_num - 1) |-> NoRecord]
  /\ posted = [s \in 0..(vring_num - 1) |-> NoRecord]
  /\ used_event = 0
  /\ g_event = 0
  /\ last_used_signalled = 0
  /\ g_seen = 0
  /\ g_last = 0
  /\ (InitDirect \/ InitIndirect)
  /\ AvailIdle /\ InoutIdle /\ DevIdle /\ FieldIdle
  /\ wpc = "start"
  /\ w_head = 0 /\ w_idx = 0 /\ w_max = 0 /\ w_desc = NoTable
  /\ iov = <<>> /\ out = 0 /\ in = 0 /\ w_ret = 0 /\ visited = <<>>

NextWalk ==
  \/ GetHeadIov_Enter(avail_head)
  \/ GetHeadIov_Iter
  \/ GetHeadIov_Fault

SpecWalk == InitWalk /\ [][NextWalk]_vars

\* ------------------------------------------- the queue from end to end
\* Publications of the guest in one behaviour.
MaxPub == 3
\* vring.num of the queue, and the values its available index starts from.
QueueNum == 4
AvailStart == {0, 65535}

\* virt_queue__available() of kvm/virtio.h: an entry is published and not
\* yet popped.
virt_queue__available ==
  virtio_guest_to_host_u16(avail_idx) # last_avail_idx

\* virt_queue__pop() of kvm/virtio.h: the head in the slot at the cursor,
\* and the cursor after it.
virt_queue__pop ==
  virtio_guest_to_host_u16(avail_ring[last_avail_idx % vring_num])
pop_cursor(i) == (i + 1) % U16

\* virt_queue__get_desc() of kvm/virtio.h: &queue->vring.desc[idx].
virt_queue__get_desc(i) == DescReads(guest_flat_to_host(DescTableAddr), i)

\* The host thread is between two operations.
HostFree ==
  /\ pc = "idle"
  /\ wpc \in {"none", "done"}
  /\ io_pc \in {"none", "done"}

\* The guest publishes head h, a chain the host does not hold: it writes
\* the slot at its available index and then advances that index.
GuestPublish(h) ==
  /\ Len(published) < MaxPub
  /\ \A k \in (ncalls + 1)..Len(published) : published[k] # h
  /\ avail_ring' =
       [avail_ring EXCEPT ![virtio_guest_to_host_u16(avail_idx) % vring_num] =
          virtio_host_to_guest_u16(h)]
  /\ avail_idx' =
       virtio_host_to_guest_u16((virtio_guest_to_host_u16(avail_idx) + 1) % U16)
  /\ published' = Append(published, h)
  /\ UNCHANGED <<ringVars, walkVars, fixedVars, last_avail_idx, returned,
                 inoutVars, devVars, fieldVars>>

\* Lines 112-118: virt_queue__get_iov pops the head and hands it, with the
\* caller's iov, to virt_queue__get_head_iov.
GetIov_Pop ==
  /\ HostFree
  /\ virt_queue__available
  /\ avail_head' = virt_queue__pop
  /\ last_avail_idx' = pop_cursor(last_avail_idx)
  /\ wpc' = "start"
  /\ iov' = <<>>
  /\ visited' = <<>>
  /\ UNCHANGED <<ringVars, fixedVars, desc, itab, w_head, w_idx, w_max, w_desc,
                 out, in, w_ret, avail_ring, avail_idx, published, returned,
                 inoutVars, devVars, fieldVars>>

\* Line 135: the segment goes to in_iov.
inout_is_out(d) == ~virt_desc__test_flag(d, VRING_DESC_F_WRITE)
inout_is_in(d) == virt_desc__test_flag(d, VRING_DESC_F_WRITE)

\* Lines 122-130: virt_queue__get_inout_iov pops the head.
GetInoutIov_Pop ==
  /\ HostFree
  /\ virt_queue__available
  /\ io_head' = virt_queue__pop
  /\ io_idx' = virt_queue__pop
  /\ last_avail_idx' = pop_cursor(last_avail_idx)
  /\ io_out' = 0
  /\ io_in' = 0
  /\ in_iov' = <<>>
  /\ out_iov' = <<>>
  /\ io_pc' = "loop"
  /\ UNCHANGED <<ringVars, walkVars, fixedVars, avail_ring, avail_idx,
                 published, returned, io_ret, devVars, fieldVars>>

\* Lines 131-150: one pass of its loop, and the return of head at the break.
GetInoutIov_Iter ==
  /\ io_pc = "loop"
  /\ Len(in_iov) + Len(out_iov) < MaxIov
  /\ \E d \in virt_queue__get_desc(io_idx) :
       /\ IF inout_is_in(d)
          THEN /\ in_iov' = Append(in_iov, segment(d))
               /\ io_in' = (io_in + 1) % U16
               /\ UNCHANGED <<out_iov, io_out>>
          ELSE /\ out_iov' = Append(out_iov, segment(d))
               /\ io_out' = (io_out + 1) % U16
               /\ UNCHANGED <<in_iov, io_in>>
       /\ IF virt_desc__test_flag(d, VRING_DESC_F_NEXT)
          THEN /\ io_idx' = virtio_guest_to_host_u16(d.next)
               /\ io_pc' = "loop"
               /\ UNCHANGED <<io_ret, returned>>
          ELSE /\ io_pc' = "done"
               /\ io_ret' = io_head
               /\ returned' = Append(returned, io_head)
               /\ UNCHANGED io_idx
  /\ UNCHANGED <<ringVars, walkVars, fixedVars, availVars, io_head, devVars,
                 fieldVars>>

\* The queue's table: the chain 0 -> 2 -> 1 with WRITE as wr says, and at 3
\* an INDIRECT head over a table of two entries.
QueueDescTable(wr) ==
  [DirectTable(<<0, 2, 1>>, wr, -1, 0) EXCEPT
     ![3] = MkDesc(ItabAddr, 2 * VringDescSize, VRING_DESC_F_INDIRECT, 0)]
\* The heads of its two chains, and the threshold the guest moves to.
QueueHeads == {0, 3}
QueueEvents == {1}

InitQueue ==
  /\ RingLocalsInit
  /\ vring_num = QueueNum
  /\ idx0 = 0
  /\ used_idx = virtio_host_to_guest_u16(0)
  /\ used_ring = [s \in 0..(vring_num - 1) |-> NoRecord]
  /\ posted = [s \in 0..(vring_num - 1) |-> NoRecord]
  /\ used_event = virtio_host_to_guest_u16(0)
  /\ g_event = 0
  /\ last_used_signalled = 0
  /\ g_seen = 0
  /\ g_last = 0
  /\ \E wr \in [1..3 -> BOOLEAN] : desc = QueueDescTable(wr)
  /\ itab = IndirectTable(<<0, 1>>, <<FALSE, TRUE>>, -1, 0)
  /\ avail_head = 0
  /\ wpc = "none"
  /\ w_head = 0 /\ w_idx = 0 /\ w_max = 0 /\ w_desc = NoTable
  /\ iov = <<>> /\ out = 0 /\ in = 0 /\ w_ret = 0 /\ visited = <<>>
  /\ \E a \in AvailStart :
       /\ avail_idx = virtio_host_to_guest_u16(a)
       /\ last_avail_idx = a
  /\ avail_ring = [s \in 0..(vring_num - 1) |-> 0]
  /\ published = <<>>
  /\ returned = <<>>
  /\ InoutIdle /\ DevIdle /\ FieldIdle

\* The backend completes the oldest chain it holds.
CompleteOldest ==
  /\ HostFree
  /\ ncalls < Len(returned)
  /\ virt_queue__set_used_elem(returned[ncalls + 1], 100)

\* The host serves the queue with virt_queue__get_iov only.
NextFifo ==
  \/ \E h \in QueueHeads : GuestPublish(h)
  \/ GetIov_Pop
  \/ GetHeadIov_Enter(avail_head)
  \/ GetHeadIov_Iter
  \/ CompleteOldest
  \/ (pc = "returned" /\ virtio_queue__should_signal)
  \/ SignalVq
  \/ Commit
  \/ \E e \in QueueEvents : GuestWriteEvent(e)

SpecFifo == InitQueue /\ [][NextFifo]_vars

\* The host serves it with either walker.
NextQueue ==
  \/ NextFifo
  \/ GetInoutIov_Pop
  \/ GetInoutIov_Iter

SpecQueue == InitQueue /\ [][NextQueue]_vars

\* No queue is set up: the state of a device before its queues exist.
NoQueue ==
  /\ RingLocalsInit
  /\ ~swap
  /\ vring_num = 1
  /\ idx0 = 0
  /\ used_idx = 0
  /\ used_ring = <<>>
  /\ posted = <<>>
  /\ used_event = 0
  /\ g_event = 0
  /\ last_used_signalled = 0
  /\ g_seen = 0
  /\ g_last = 0
  /\ WalkerIdle /\ AvailIdle /\ InoutIdle

\* ----------------------------------------------------------- virtio_init
\* Calls of virtio_init in one behaviour.
MaxInits == 2

\* enum virtio_trans, and a value outside it.
VIRTIO_PCI == 0
VIRTIO_MMIO == 1
TransKinds == {VIRTIO_PCI, VIRTIO_MMIO, 2}
ENOMEM == 12
NULL == [state |-> "NULL", of_call |-> 0]
\* vdev->virtio of a device nothing was assigned to.
Unset == [state |-> "unset", of_call |-> 0]

\* The devices set up, and the operation tables their callers pass.
Devs == {1, 2}
OpsTabs == {1, 2}

\* An operation table as its owner filled it, and as lines 196-199 and
\* 208-211 fill it.
CallerOps ==
  [signal_vq |-> "caller", signal_config |-> "caller",
   init |-> "caller", exit |-> "caller"]
PciOps ==
  [signal_vq |-> "virtio_pci__signal_vq",
   signal_config |-> "virtio_pci__signal_config",
   init |-> "virtio_pci__init", exit |-> "virtio_pci__exit"]
MmioOps ==
  [signal_vq |-> "virtio_mmio_signal_vq",
   signal_config |-> "virtio_mmio_signal_config",
   init |-> "virtio_mmio_init", exit |-> "virtio_mmio_exit"]
TransportOps(k) == IF k = "pci" THEN PciOps ELSE MmioOps

\* Lines 189-214: the case of the switch.
trans_case_no_default(t) == IF t = VIRTIO_PCI THEN "pci" ELSE "mmio"
trans_case(t) ==
  IF t = VIRTIO_PCI THEN "pci" ELSE IF t = VIRTIO_MMIO THEN "mmio" ELSE "default"

\* Lines 191 and 203: calloc() of the transport's state; lines 192 and 204:
\* the test of its result.
calloc(k, ok, n) == IF ok THEN [state |-> k, of_call |-> n] ELSE NULL
calloc_unchecked(v) == FALSE
calloc_failed(v) == v = NULL

\* Lines 183-219, for device d, operation table o, kind trans; mem says
\* whether the allocation succeeds.
virtio_init(d, o, trans, mem) ==
  /\ init_arg.n < MaxInits
  /\ init_arg' = [dev |-> d, ops |-> o, trans |-> trans, mem |-> mem,
                  n |-> init_arg.n + 1]
  /\ LET k == trans_case(trans)
         virtio == calloc(k, mem, init_arg.n + 1)
     IN IF k = "default"
        THEN /\ init_ret' = -1
             /\ UNCHANGED <<vdev_virtio, vdev_ops, ops_tab, init_log, kind_of>>
        ELSE IF calloc_failed(virtio)
        THEN /\ init_ret' = -ENOMEM
             /\ UNCHANGED <<vdev_virtio, vdev_ops, ops_tab, init_log, kind_of>>
        ELSE /\ vdev_virtio' = [vdev_virtio EXCEPT ![d] = virtio]
             /\ vdev_ops' = [vdev_ops EXCEPT ![d] = o]
             /\ ops_tab' = [ops_tab EXCEPT ![o] = TransportOps(k)]
             /\ init_log' = Append(init_log,
                                   [fn |-> TransportOps(k).init, dev |-> d])
             /\ kind_of' = [kind_of EXCEPT ![d] = k]
             /\ init_ret' = 0
  /\ UNCHANGED <<ringVars, walkVars, fixedVars, availVars, returned,
                 inoutVars, fieldVars>>

InitDev ==
  /\ NoQueue
  /\ vdev_virtio = [d \in Devs |-> Unset]
  /\ vdev_ops = [d \in Devs |-> 0]
  /\ ops_tab = [o \in OpsTabs |-> CallerOps]
  /\ init_log = <<>>
  /\ init_ret = 0
  /\ init_arg = [dev |-> 0, ops |-> 0, trans |-> 0, mem |-> FALSE, n |-> 0]
  /\ kind_of = [d \in Devs |-> "none"]
  /\ FieldIdle

NextDev ==
  \E d \in Devs, o \in OpsTabs, t \in TransKinds, mem \in BOOLEAN :
    virtio_init(d, o, t, mem)

SpecDev == InitDev /\ [][NextDev]_vars

\* ------------------------------------------ virtio__get_dev_specific_field
\* Calls of virtio__get_dev_specific_field in one behaviour.
MaxFieldCalls == 2
VIRTIO_PCI_O_CONFIG == 0
VIRTIO_PCI_O_MSIX == 1
\* Offsets a config access arrives with, up to the largest int.
Offsets == {0, 1, 2, 3, 4, 5, 6, 7, 8, 255, 2147483647}
\* What the caller's u32 holds before a call.
ConfigOffStart == {0, 77, 4096}

\* Line 156.
msix_region_incl(offset) == offset <= 4
msix_region(offset) == offset < 4

\* Lines 153-165.
virtio__get_dev_specific_field(offset, msix) ==
  /\ f_n < MaxFieldCalls
  /\ f_n' = f_n + 1
  /\ f_offset' = offset
  /\ f_msix' = msix
  /\ IF msix /\ msix_region(offset)
     THEN /\ f_ret' = VIRTIO_PCI_O_MSIX
          /\ UNCHANGED config_off
     ELSE /\ config_off' = (IF msix THEN offset - 4 ELSE offset)
          /\ f_ret' = VIRTIO_PCI_O_CONFIG
  /\ UNCHANGED <<ringVars, walkVars, fixedVars, availVars, returned,
                 inoutVars, devVars>>

InitField ==
  /\ NoQueue
  /\ DevIdle
  /\ f_offset = 0 /\ f_msix = FALSE /\ f_ret = 0 /\ f_n = 0
  /\ config_off \in ConfigOffStart

NextField ==
  \E offset \in Offsets, msix \in BOOLEAN :
    virtio__get_dev_specific_field(offset, msix)

SpecField == InitField /\ [][NextField]_vars

\* ================================================================ claims

\* The used index the guest-visible memory holds, in host byte order, and
\* the number of completions it makes visible.
VisibleIdx == IF swap THEN bswap16(used_idx) ELSE used_idx
VisibleCount == (VisibleIdx - idx0) % U16

\* C1: a guest that reads the used ring while set_used_elem runs, and has
\* seen the used index move past an entry, reads in that entry's slot the
\* (head, len) of the call that posted it: never a stale or half-written
\* record.
C1_RecordVisibleBeforeIndex == g_got = g_exp

\* The guest consumed a record while the host still had stores in flight.
C1_Witness ==
  /\ g_last = (idx0 + 1) % U16
  /\ g_got = [id |-> vring_num - 1, len |-> 100]
  /\ sb # <<>>
  /\ pc # "idle"

\* C2: when a notification reaches the guest, the used index the guest
\* reads already counts every update the notification was sent for.
C2_IndexVisibleBeforeSignal == irq <= VisibleCount

\* The notification for the second completion has reached the guest.
C2_Witness == irq = 2 /\ VisibleCount = 2 /\ sig_ret

\* C3: should_signal answers true exactly when (new - event - 1) mod 2^16 <
\* (new - old) mod 2^16, for old the cursor, new the used index and event
\* the threshold the guest published; a true answer moves the cursor to new,
\* a false one leaves it.  old=0, new=5, event=3 is true; old = new is
\* false; old=0, new=5 with the event far ahead (1000) is false.
C3_ShouldSignalFormula ==
  [][ (sig_tick' # sig_tick) =>
        LET o == last_used_signalled
            n == (idx0 + ncalls) % U16
            e == g_event
            due == ((n - e - 1) % U16) < ((n - o) % U16)
        IN /\ sig_ret' = due
           /\ last_used_signalled' = (IF due THEN n ELSE o)
           /\ (o = 0 /\ n = 5 /\ e = 3 => sig_ret')
           /\ (o = n => ~sig_ret')
           /\ (o = 0 /\ n = 5 /\ e = 1000 => ~sig_ret') ]_vars

\* should_signal has just answered true for old=0, new=5, event=3.
C3_Witness ==
  /\ pc = "signal"
  /\ old_idx = 0 /\ new_idx = 5 /\ event_idx = 3
  /\ sig_ret
  /\ last_used_signalled = 5

\* C4: when the used index advanced from e to e+1 with the published
\* threshold equal to e, the should_signal call that follows answers true.
C4_NoMissedSignal ==
  (/\ sig_adv
   /\ adv_event = idx_before
   /\ event_idx = idx_before
   /\ new_idx = (idx_before + 1) % U16) => sig_ret

\* C5: between two advances of the used index should_signal answers true
\* at most once, whatever thresholds the guest publishes in between.
C5_NoDoubleSignal == signals_since_adv <= 1

\* After a true answer the guest moved the threshold and a further call,
\* with no advance in between, answered false.
C5_Witness ==
  /\ signals_since_adv = 1
  /\ ~sig_adv
  /\ ~sig_ret
  /\ event_idx # new_idx
  /\ ncalls > 0

\* C6: a finished set_used_elem(head, len) call left the used index one
\* past (mod 2^16) the value it found, the slot (index found) % num reads
\* back as (head, len), and the pointer returned is that slot.
C6_SetUsedElemRoundTrip ==
  pc = "returned" =>
    /\ virtio_guest_to_host_u16(HostRead(<<"idx">>)) = (idx_before + 1) % U16
    /\ (IF swap THEN bswap32(HostRead(<<"id", idx_before % vring_num>>))
                ELSE HostRead(<<"id", idx_before % vring_num>>)) = head
    /\ (IF swap THEN bswap32(HostRead(<<"len", idx_before % vring_num>>))
                ELSE HostRead(<<"len", idx_before % vring_num>>)) = len
    /\ used_elem = idx_before % vring_num

\* A call returned across the 16-bit wrap on a byte-swapped queue.
C6_Witness ==
  /\ pc = "returned"
  /\ idx_before = 65535
  /\ swap
  /\ head = 1 /\ len = 100
  /\ used_elem = 1

\* ---- the chain walker's claims
\* The fields of a descriptor record d in host byte order.
DescFlags(d) == IF swap THEN bswap16(d.flags) ELSE d.flags
DescNext(d) == IF swap THEN bswap16(d.next) ELSE d.next
DescLen(d) == IF swap THEN bswap32(d.len) ELSE d.len
DescAddr(d) == IF swap THEN << bswap32(d.addr[2]), bswap32(d.addr[1]) >> ELSE d.addr
HasFlag(d, f) == ((DescFlags(d) \div f) % 2) = 1
SegmentOf(d) == [iov_base |-> [host |-> DescAddr(d)], iov_len |-> DescLen(d)]
IsWritable(v) == HasFlag(v.d, 2)
IsReadable(v) == ~HasFlag(v.d, 2)
QueueTable == [host |-> << 0, 4 >>]

\* The indices reached from i over NEXT links in the queue's table, n at most.
RECURSIVE ChainOf(_, _)
ChainOf(i, n) ==
  IF n = 0 \/ i \notin 0..(vring_num - 1) THEN <<>>
  ELSE IF ~HasFlag(desc[i], 1) THEN <<i>>
  ELSE <<i>> \o ChainOf(DescNext(desc[i]), n - 1)

\* h heads a chain of distinct in-range descriptors of the queue's table,
\* linked by NEXT and ended by one without NEXT, and is not INDIRECT.
ValidDirectChain(h) ==
  /\ h \in 0..(vring_num - 1)
  /\ ~HasFlag(desc[h], 4)
  /\ LET c == ChainOf(h, vring_num) IN
       /\ c # <<>>
       /\ \A i, j \in 1..Len(c) : i # j => c[i] # c[j]
       /\ ~HasFlag(desc[c[Len(c)]], 1)

\* C7: on a valid chain of N <= num descriptors that is not indirect, the
\* walk reads exactly the chain's descriptors in the order of the next
\* links, writes for the i-th of them the segment (resolved address,
\* length) as iov[i], and ends with out + in = N, in the number of WRITE
\* descriptors and out the number of the others.
C7_ValidChainWalk ==
  ValidDirectChain(avail_head) =>
    LET c == ChainOf(avail_head, vring_num) IN
      /\ wpc # "fault"
      /\ Len(visited) <= Len(c)
      /\ Len(iov) = Len(visited)
      /\ \A k \in 1..Len(visited) :
           /\ visited[k].tab = QueueTable
           /\ visited[k].idx = c[k]
           /\ iov[k] = [iov_base |-> [host |-> << 0, 32 + c[k] >>],
                        iov_len  |-> 8 + c[k]]
      /\ wpc = "loop" => Len(visited) < Len(c)
      /\ wpc = "done" =>
           /\ Len(visited) = Len(c)
           /\ out + in = Len(c)
           /\ in = Cardinality({k \in 1..Len(c) : HasFlag(desc[c[k]], 2)})
           /\ w_ret = avail_head

\* The walk of the chain 2 -> 0 -> 3 -> 1 of a byte-swapped queue is done.
C7_Witness ==
  /\ wpc = "done"
  /\ swap
  /\ ValidDirectChain(avail_head)
  /\ ChainOf(avail_head, vring_num) = <<2, 0, 3, 1>>
  /\ out = 2 /\ in = 2

\* C8, for the queue's own table and next indices that all lie inside it
\* (cycles included): the walk reads at most num descriptors, so
\* out + in <= num.
C8_DirectWalkBounded ==
  (/\ wpc \in {"loop", "done"}
   /\ w_desc = QueueTable
   /\ avail_head \in 0..(vring_num - 1)
   /\ \A k \in 1..Len(visited) : visited[k].idx \in 0..(vring_num - 1))
    => out + in <= vring_num

\* C9: with an INDIRECT head the walk runs over the table at the head's
\* address with max = head.len / 16, from entry 0; every descriptor it
\* reads is of that table, none of the queue's; and it returns the head.
C9_IndirectWalk ==
  (/\ wpc \in {"loop", "done"}
   /\ avail_head \in 0..(vring_num - 1)
   /\ HasFlag(desc[avail_head], 4)) =>
    /\ w_max = DescLen(desc[avail_head]) \div 16
    /\ w_desc = [host |-> DescAddr(desc[avail_head])]
    /\ \A k \in 1..Len(visited) : visited[k].tab = w_desc
    /\ visited # <<>> => visited[1].idx = 0
    /\ wpc = "done" => w_ret = avail_head

\* C10, for the valid chains of the queue's own table: when the walk is
\* done, iov[0 .. out-1] are the segments of the descriptors read without
\* WRITE and iov[out .. out+in-1] those of the descriptors read with WRITE,
\* each in the order read.
C10_ReadablePrefix ==
  (wpc = "done" /\ ValidDirectChain(avail_head)) =>
    LET r == SelectSeq(visited, IsReadable)
        w == SelectSeq(visited, IsWritable)
    IN /\ out = Len(r)
       /\ in = Len(w)
       /\ \A k \in 1..Len(r) : iov[k] = SegmentOf(r[k].d)
       /\ \A k \in 1..Len(w) : iov[out + k] = SegmentOf(w[k].d)

\* C11: with an INDIRECT head whose length gives an indirect table of zero
\* entries (len / 16 = 0) the chain has no segment: the walk writes no iov
\* entry and has out = 0 and in = 0.
C11_EmptyIndirectChain ==
  (/\ wpc \in {"loop", "done"}
   /\ avail_head \in 0..(vring_num - 1)
   /\ HasFlag(desc[avail_head], 4)
   /\ DescLen(desc[avail_head]) \div 16 = 0) =>
    /\ iov = <<>>
    /\ out = 0
    /\ in = 0

\* C12: the heads virt_queue__get_iov returned, in call order, are the
\* heads the guest published, in publication order, as far as calls were
\* made; every call took exactly one entry off the available ring; an
\* indirect head is returned like any other.
C12_FifoOrder ==
  LET calls == Len(returned) + (IF wpc \in {"start", "loop"} THEN 1 ELSE 0) IN
    /\ calls <= Len(published)
    /\ returned = SubSeq(published, 1, Len(returned))
    /\ (virtio_guest_to_host_u16(avail_idx) - last_avail_idx) % U16
         = Len(published) - calls

\* Three calls returned the indirect head, the direct one and the indirect
\* one again, over the wrap of the available index of a byte-swapped queue.
C12_Witness ==
  /\ returned = <<3, 0, 3>>
  /\ published = <<3, 0, 3>>
  /\ last_avail_idx = 2
  /\ swap
  /\ wpc = "done"

\* C13: from used index 65534 the index after k calls is (65534 + k) mod
\* 2^16, so 1 after three calls; on a power-of-two queue the slot each call
\* writes is one past (mod num) the slot of the call before, also from
\* index 65535 to index 0.
C13_WrapArithmetic ==
  /\ [](/\ VisibleIdx = (65534 + ncalls) % U16
        /\ (ncalls = 3 => VisibleIdx = 1)
        /\ (ncalls > 0 => used_elem = idx_before % vring_num))
  /\ [][(ncalls' = ncalls + 1 /\ ncalls > 0) =>
          used_elem' = (used_elem + 1) % vring_num]_vars

\* The third call, on a byte-swapped queue of four, found index 0 and
\* wrote slot 0 after slots 2 and 3.
C13_Witness ==
  /\ ncalls = 3
  /\ idx_before = 0
  /\ used_elem = 0
  /\ VisibleIdx = 1
  /\ vring_num = 4
  /\ swap

\* C14: a step of the host (one that is no publication and no threshold
\* write of the guest) leaves the descriptor table, the indirect table, the
\* available ring, its index, the used-event field and num as they were;
\* the used ring and the used index change only in a step of
\* virt_queue__set_used_elem, which changes the index and exactly one
\* record, the one at the slot it returns.
C14_OneWriterPerField ==
  [][ /\ (published' = published /\ g_event' = g_event) =>
           UNCHANGED <<desc, itab, avail_ring, avail_idx, used_event,
                       vring_num>>
      /\ (used_ring' # used_ring \/ used_idx' # used_idx) =>
           /\ ncalls' = ncalls + 1
           /\ used_idx' # used_idx
           /\ \A t \in DOMAIN used_ring :
                t # used_elem' => used_ring'[t] = used_ring[t] ]_vars

\* Both walkers, set_used_elem and should_signal have run: the second
\* completion is posted and signalled beside records of earlier ones.
C14_Witness ==
  /\ ncalls = 2
  /\ io_pc = "done"
  /\ wpc = "done"
  /\ sig_ret
  /\ pc = "idle"
  /\ used_ring[0] # NoRecord
  /\ used_ring[1] # NoRecord
  /\ used_ring[2] = NoRecord

\* ---- device set-up and config access
\* What virtio_init may wire up.
DeviceWiring == <<vdev_virtio, vdev_ops, ops_tab, init_log>>

\* C15: a virtio_init call with a kind other than VIRTIO_PCI and
\* VIRTIO_MMIO returns non-zero and leaves vdev->virtio, vdev->ops and the
\* four callbacks of every operation table as they were, and invokes no
\* transport init.
C15_UnknownTransport ==
  [][ (init_arg'.n # init_arg.n
        /\ init_arg'.trans \notin {VIRTIO_PCI, VIRTIO_MMIO}) =>
      /\ init_ret' # 0
      /\ UNCHANGED DeviceWiring ]_vars

\* A device set up over PCI was passed again with an unknown kind.
C15_Witness ==
  /\ init_arg.n = 2
  /\ init_arg.trans = 2
  /\ init_arg.mem
  /\ init_ret = -1
  /\ kind_of[init_arg.dev] = "pci"
  /\ ops_tab[init_arg.ops] = PciOps
  /\ Len(init_log) = 1

\* C16: a virtio_init call of a known kind whose allocation fails returns
\* -ENOMEM, assigns neither vdev->virtio nor vdev->ops, overwrites no
\* callback and invokes no transport init.
C16_AllocationFailure ==
  [][ (init_arg'.n # init_arg.n
        /\ init_arg'.trans \in {VIRTIO_PCI, VIRTIO_MMIO}
        /\ ~init_arg'.mem) =>
      /\ init_ret' = -12
      /\ UNCHANGED DeviceWiring ]_vars

\* The allocation failed for an MMIO set-up over the table of a PCI device.
C16_Witness ==
  /\ init_arg.n = 2
  /\ init_arg.trans = VIRTIO_MMIO
  /\ ~init_arg.mem
  /\ init_ret = -12
  /\ ops_tab[init_arg.ops] = PciOps
  /\ kind_of[init_arg.dev] = "none"
  /\ Len(init_log) = 1

\* C17: a device virtio_init succeeded for with kind K has, through its
\* vdev->ops, the four callbacks of kind K in every later state, whatever
\* virtio_init calls are made for other devices.
C17_TransportFixed ==
  \A d \in Devs :
    kind_of[d] # "none" =>
      ops_tab[vdev_ops[d]] = (IF kind_of[d] = "pci" THEN PciOps ELSE MmioOps)

\* C18: for offset >= 0, a call with msix and offset < 4 returns the MSI-X
\* region and leaves *config_off; with msix and offset >= 4 it returns the
\* config region with *config_off = offset - 4; without msix the config
\* region with *config_off = offset.  (2, true) is MSI-X, (6, true) is
\* config at 2, (6, false) is config at 6.
C18_FieldClassification ==
  [][ f_n' # f_n =>
      LET o == f_offset'
          m == f_msix'
      IN /\ (m /\ o < 4) => (f_ret' = 1 /\ config_off' = config_off)
         /\ (m /\ o >= 4) => (f_ret' = 0 /\ config_off' = o - 4)
         /\ ~m => (f_ret' = 0 /\ config_off' = o)
         /\ (o = 2 /\ m) => f_ret' = 1
         /\ (o = 6 /\ m) => (f_ret' = 0 /\ config_off' = 2)
         /\ (o = 6 /\ ~m) => (f_ret' = 0 /\ config_off' = 6) ]_vars

\* (6, true) was decoded as config at 2, after a call that decoded the
\* MSI-X region and left the caller's value.
C18_Witness ==
  /\ f_n = 2
  /\ f_offset = 6
  /\ f_msix
  /\ f_ret = 0
  /\ config_off = 2

\* ---- the walker's bounds, and the two walkers side by side
\* C19, for a head inside the queue's table that is not INDIRECT: every
\* index at which the walk reads a descriptor is below num.
C19_WalkInBounds ==
  (/\ avail_head \in 0..(vring_num - 1)
   /\ ~HasFlag(desc[avail_head], 4)) =>
    \A k \in 1..Len(visited) : visited[k].idx < vring_num

\* The places of chain c whose descriptor has WRITE, and those without.
WritePlaces(c) ==
  SelectSeq([k \in 1..Len(c) |-> k], LAMBDA k : HasFlag(desc[c[k]], 2))
ReadPlaces(c) ==
  SelectSeq([k \in 1..Len(c) |-> k], LAMBDA k : ~HasFlag(desc[c[k]], 2))

\* C20: when virt_queue__get_iov and virt_queue__get_inout_iov have each
\* walked the same valid direct chain of the same descriptor table, they
\* returned the same head and the same in and out, in_iov holds the
\* entries of iov at the places of the WRITE descriptors and out_iov those
\* at the places of the others, each in the order of the walk.
C20_WalkersAgree ==
  (/\ wpc = "done"
   /\ io_pc = "done"
   /\ w_head = io_head
   /\ ValidDirectChain(w_head)) =>
    LET c == ChainOf(w_head, vring_num)
        w == WritePlaces(c)
        r == ReadPlaces(c)
    IN /\ io_ret = w_ret
       /\ io_in = in
       /\ io_out = out
       /\ Len(iov) = Len(c)
       /\ in_iov = [j \in 1..Len(w) |-> iov[w[j]]]
       /\ out_iov = [j \in 1..Len(r) |-> iov[r[j]]]

\* Both walked the chain 0 -> 2 -> 1 of a byte-swapped queue, whose middle
\* descriptor alone has WRITE.
C20_Witness ==
  /\ wpc = "done"
  /\ io_pc = "done"
  /\ w_head = 0
  /\ io_head = 0
  /\ swap
  /\ out = 2 /\ in = 1
  /\ Len(out_iov) = 2
  /\ in_iov = << iov[2] >>
  /\ HasFlag(desc[2], 2)

====
